---- MODULE Spec2Model ----
(***************************************************************************)
(* saferm: a guarded recursive delete (src/src/main.rs).                   *)
(*                                                                         *)
(* The filesystem is a finite tree of entries addressed by their physical  *)
(* (symlink-free) path; a path is a sequence of components and <<>> is "/".*)
(* The walk performed by delete() is an explicit call stack: one step      *)
(* enters a call (lines 43-105), one step finishes it (lines 106-116).     *)
(***************************************************************************)
EXTENDS Integers, Sequences, FiniteSets, TLC

VARIABLES
    fs,        \* the filesystem: tree (physical path -> entry) and listing order
    input,     \* the command line: path argument and flags
    options,   \* DeleteOptions built by main
    status,    \* where the process is: "start", "run", "done", "exit", "panic"
    stack,     \* call stack of delete(): frames [path, todo]
    out,       \* standard output, one record per println!
    trace,     \* history: one record per decision of delete()
    last,      \* history: the filesystem before the latest step and the path it handled
    run,       \* 1 for the first invocation of the program, 2 for the second
    prev       \* history: what the first invocation started from and produced

vars == <<fs, input, options, status, stack, out, trace, last, run, prev>>

\* Symlinks the kernel follows in one path resolution before it gives up
\* with ELOOP (40 on Linux; scaled down).
MaxSymlinks == 2

----------------------------------------------------------------------------
(* Paths (std::path::Path) *)

Root == <<>>

\* Path::parent: the path without its final component; none for "/"
HasParent(p) == Len(p) > 0
Parent(p) == SubSeq(p, 1, Len(p) - 1)

\* Path::file_name: the final component ("" for "/", as unwrap_or gives)
FileName(p) == IF Len(p) = 0 THEN "" ELSE p[Len(p)]

\* Path::starts_with: component-wise prefix
StartsWith(p, base) ==
    /\ Len(base) <= Len(p)
    /\ SubSeq(p, 1, Len(base)) = base

\* str::starts_with("."), over the names that occur in the modelled trees
DotNames == {".h", ".k"}
StartsWithDot(name) == name \in DotNames

\* env::current_dir() of the modelled invocations
Cwd == <<"s">>

\* main, lines 193-203: a relative argument is appended to the working
\* directory; nothing is resolved or normalised
AbsolutePath(arg) == IF arg.absolute THEN arg.comps ELSE Cwd \o arg.comps

----------------------------------------------------------------------------
(* Filesystem primitives *)

\* A failed system call, with its errno
Failed(errno) == [ok |-> FALSE, at |-> Root, err |-> errno]
Found(e) == [ok |-> TRUE, at |-> e, err |-> "none"]

\* Variant of Walk that follows symlinks without any limit
RECURSIVE Walk_NoLimit(_, _, _, _, _)
Walk_NoLimit(f, cur, rest, follow, budget) ==
    IF rest = <<>> THEN Found(cur)
    ELSE LET nxt == Append(cur, Head(rest)) IN
         IF f[cur].kind # "dir" THEN Failed("ENOTDIR")
         ELSE IF nxt \notin DOMAIN f THEN Failed("ENOENT")
         ELSE IF f[nxt].kind = "link" /\ (Len(rest) > 1 \/ follow)
              THEN Walk_NoLimit(f, Root, f[nxt].target \o Tail(rest), follow, budget)
         ELSE Walk_NoLimit(f, nxt, Tail(rest), follow, budget)

\* Kernel path resolution from `cur` (a resolved directory) over the
\* components `rest`.  An intermediate symlink is always followed, the final
\* one only when `follow`; `budget` symlinks may still be followed.
RECURSIVE Walk(_, _, _, _, _)
Walk(f, cur, rest, follow, budget) ==
    IF rest = <<>> THEN Found(cur)
    ELSE LET nxt == Append(cur, Head(rest)) IN
         IF f[cur].kind # "dir" THEN Failed("ENOTDIR")
         ELSE IF nxt \notin DOMAIN f THEN Failed("ENOENT")
         ELSE IF f[nxt].kind = "link" /\ (Len(rest) > 1 \/ follow)
              THEN IF budget = 0 THEN Failed("ELOOP")
                   ELSE Walk(f, Root, f[nxt].target \o Tail(rest), follow, budget - 1)
         ELSE Walk(f, nxt, Tail(rest), follow, budget)

\* lstat(2) / fs::symlink_metadata: the entry the path names, final symlink not followed
Lstat(f, p) == Walk(f, Root, p, FALSE, MaxSymlinks)

\* stat(2) / fs::metadata and Path::canonicalize: every symlink followed
Canonicalize(f, p) == Walk(f, Root, p, TRUE, MaxSymlinks)

\* Variant of IsSymlink that reads the entry with stat, following the link
IsSymlink_Stat(f, p) ==
    LET r == Canonicalize(f, p) IN r.ok /\ f[r.at].kind = "link"

\* Path::is_symlink: false when the entry cannot be read
IsSymlink(f, p) ==
    LET r == Lstat(f, p) IN r.ok /\ f[r.at].kind = "link"

\* Path::is_dir: follows symlinks; false when the entry cannot be read
IsDir(f, p) ==
    LET r == Canonicalize(f, p) IN r.ok /\ f[r.at].kind = "dir"

\* Path::try_exists: follows symlinks; Ok(false) when nothing is found
\* (a dangling link included), Err for any other failure
TryExists(f, p) ==
    LET r == Canonicalize(f, p) IN
    IF r.ok THEN "true" ELSE IF r.err = "ENOENT" THEN "false" ELSE "error"

\* Order in which a directory lists its names: fixed by the filesystem
NameOrder == <<"a", ".h", "c", "sub", "b", "m", "x", "l", ".k", "f", "o", "s", "ls">>

RECURSIVE Reverse(_)
Reverse(s) == IF s = <<>> THEN <<>> ELSE Append(Reverse(Tail(s)), Head(s))

RECURSIVE Listing(_, _, _, _)
Listing(f, dir, p, names) ==
    IF names = <<>> THEN <<>>
    ELSE IF Append(dir, Head(names)) \in DOMAIN f
         THEN <<Append(p, Head(names))>> \o Listing(f, dir, p, Tail(names))
         ELSE Listing(f, dir, p, Tail(names))

\* fs::read_dir: opens the directory the path resolves to and yields
\* path.join(name) for each entry; fails on a non-directory or an
\* unreadable directory.  The entries are those present when the directory
\* is opened (one getdents batch), in the filesystem's order or its reverse.
ReadDir(f, p, rev) ==
    LET r == Canonicalize(f, p) IN
    IF r.ok /\ f[r.at].kind = "dir" /\ f[r.at].readable
    THEN [ok |-> TRUE,
          entries |-> Listing(f, r.at, p, IF rev THEN Reverse(NameOrder) ELSE NameOrder)]
    ELSE [ok |-> FALSE, entries |-> <<>>]

Without(f, e) == [q \in (DOMAIN f) \ {e} |-> f[q]]

\* Variant of RemoveFile that resolves a final symlink and removes what it points to
RemoveFile_Follow(f, p) ==
    LET r == Canonicalize(f, p) IN
    IF /\ r.ok
       /\ r.at # Root
       /\ f[r.at].kind # "dir"
       /\ f[Parent(r.at)].writable
    THEN [ok |-> TRUE, fs |-> Without(f, r.at)]
    ELSE [ok |-> FALSE, fs |-> f]

\* fs::remove_file = unlink(2): removes the entry the path names (a symlink
\* itself, never its target); fails on a directory (EISDIR), on a missing
\* entry and when the containing directory is not writable
RemoveFile(f, p) ==
    LET r == Lstat(f, p) IN
    IF /\ r.ok
       /\ r.at # Root
       /\ f[r.at].kind # "dir"
       /\ f[Parent(r.at)].writable
    THEN [ok |-> TRUE, fs |-> Without(f, r.at)]
    ELSE [ok |-> FALSE, fs |-> f]

----------------------------------------------------------------------------
(* is_mountpoint, lines 19-41 *)

\* Variant of is_mountpoint that reads the path with stat, following a final symlink
is_mountpoint_Stat(f, p) ==
    IF ~HasParent(p) THEN TRUE
    ELSE LET a == Canonicalize(f, p)
             b == Lstat(f, Parent(p))
         IN IF ~a.ok THEN FALSE
            ELSE IF ~b.ok THEN FALSE
            ELSE f[a.at].dev # f[b.at].dev

\* Variant of is_mountpoint that reads the parent with stat, following a final symlink
is_mountpoint_StatParent(f, p) ==
    IF ~HasParent(p) THEN TRUE
    ELSE LET a == Lstat(f, p)
             b == Canonicalize(f, Parent(p))
         IN IF ~a.ok THEN FALSE
            ELSE IF ~b.ok THEN FALSE
            ELSE f[a.at].dev # f[b.at].dev

is_mountpoint(f, p) ==
    IF ~HasParent(p) THEN TRUE
    ELSE LET a == Lstat(f, p)
             b == Lstat(f, Parent(p))
         IN IF ~a.ok THEN FALSE
            ELSE IF ~b.ok THEN FALSE
            ELSE f[a.at].dev # f[b.at].dev

----------------------------------------------------------------------------
(* delete, lines 43-116 *)

Line(msg, p) == [msg |-> msg, path |-> p]
Event(p, outcome) == [path |-> p, outcome |-> outcome]

\* What a call decided before it returned or recursed
Decision(outcome, f, lines, entries) ==
    [outcome |-> outcome, fs |-> f, lines |-> lines, entries |-> entries]

\* lines 48-55: remove the link itself; a failed removal is unwrapped
RemoveSymlink(f, p, o) ==
    IF ~o.dryrun
    THEN LET r == RemoveFile(f, p) IN
         IF r.ok
         THEN Decision("RemovedSymlink", r.fs, <<Line("removing symlink", p)>>, <<>>)
         ELSE Decision("Panic", f, <<Line("removing symlink", p)>>, <<>>)
    ELSE Decision("RemovedSymlink", f,
                  <<Line("removing symlink", p), Line("(dryrun) did nothing", p)>>, <<>>)

\* Variant of AboveStartingDir that compares the path as written, unresolved
AboveStartingDir_Lexical(f, p, o) ==
    ~StartsWith(p, o.starting_dir)

\* Variant of AboveStartingDir with the negation left out
AboveStartingDir_Inverted(f, p, o) ==
    StartsWith(Canonicalize(f, p).at, o.starting_dir)

\* line 64: the resolved path does not lie under starting_dir
AboveStartingDir(f, p, o) ==
    ~StartsWith(Canonicalize(f, p).at, o.starting_dir)

\* Variant of IsHiddenFile that tests the start of the whole path
IsHiddenFile_WholePath(p) == Len(p) > 0 /\ StartsWithDot(p[1])

\* line 71: the final component begins with a dot
IsHiddenFile(p) == StartsWithDot(FileName(p))

\* Variant of MountPoint whose unmount branch does not return
MountPoint_FallsThrough(f, p, o) ==
    IF o.umount
    THEN Decision("Passed", f, <<Line("is a mount point, unmounting", p)>>, <<>>)
    ELSE Decision("SkippedMountPoint", f, <<Line("is a mount point, skipping", p)>>, <<>>)

\* lines 77-90: a mount point is unmounted (the call itself is commented
\* out at line 81) or skipped
MountPoint(f, p, o) ==
    IF o.umount
    THEN Decision("Unmounted", f,
                  IF o.dryrun
                  THEN <<Line("is a mount point, unmounting", p), Line("(dryrun) did nothing", p)>>
                  ELSE <<Line("is a mount point, unmounting", p)>>,
                  <<>>)
    ELSE Decision("SkippedMountPoint", f, <<Line("is a mount point, skipping", p)>>, <<>>)

\* Variant of Directory that recurses whatever the recursive flag says
Directory_IgnoresFlag(f, p, o, rev) ==
    LET d == ReadDir(f, p, rev)
        said == IF o.verbose THEN <<Line("is a directory, recursing", p)>> ELSE <<>>
    IN IF d.ok THEN Decision("Recursing", f, said, d.entries)
       ELSE Decision("Panic", f, said, <<>>)

\* lines 92-105: a directory is listed for recursion or skipped; a failed
\* read_dir is unwrapped
Directory(f, p, o, rev) ==
    IF o.recursive
    THEN LET d == ReadDir(f, p, rev)
             said == IF o.verbose THEN <<Line("is a directory, recursing", p)>> ELSE <<>>
         IN IF d.ok THEN Decision("Recursing", f, said, d.entries)
            ELSE Decision("Panic", f, said, <<>>)
    ELSE Decision("SkippedNotRecursiveDirectory", f, <<Line("is a directory, skipping", p)>>, <<>>)

\* lines 43-105: the ordered checks of one call, up to the recursion
Checks(f, p, o, rev) ==
    IF IsSymlink(f, p) /\ o.remove_symlinks
    THEN RemoveSymlink(f, p, o)
    ELSE IF IsSymlink(f, p) /\ ~o.enter_symlinks
    THEN Decision("SkippedSymlink", f, <<Line("is a symlink, skipping", p)>>, <<>>)
    ELSE IF ~o.allow_delete_above_start /\ ~Canonicalize(f, p).ok
    THEN Decision("Panic", f, <<>>, <<>>)
    ELSE IF ~o.allow_delete_above_start /\ AboveStartingDir(f, p, o)
    THEN Decision("SkippedAboveRoot", f, <<Line("is above starting dir, skipping", p)>>, <<>>)
    ELSE IF ~o.allow_hidden_files /\ IsHiddenFile(p)
    THEN Decision("SkippedHidden", f, <<Line("is a hidden file, skipping", p)>>, <<>>)
    ELSE IF is_mountpoint(f, p)
    THEN MountPoint(f, p, o)
    ELSE IF IsDir(f, p)
    THEN Directory(f, p, o, rev)
    ELSE Decision("Passed", f, <<>>, <<>>)

\* Variant of Removal that removes also in a dry run
Removal_NoDryRun(f, p, o) ==
    LET said == IF o.verbose THEN <<Line("deleting", p)>> ELSE <<>>
        r == RemoveFile(f, p)
    IN IF r.ok THEN Decision("Deleted", r.fs, said, <<>>)
       ELSE Decision("DeletionError", f, said \o <<Line("error deleting", p)>>, <<>>)

\* lines 106-115: the terminal removal; a failure is printed and ignored
Removal(f, p, o) ==
    LET said == IF o.verbose THEN <<Line("deleting", p)>> ELSE <<>> IN
    IF ~o.dryrun
    THEN LET r == RemoveFile(f, p) IN
         IF r.ok THEN Decision("Deleted", r.fs, said, <<>>)
         ELSE Decision("DeletionError", f, said \o <<Line("error deleting", p)>>, <<>>)
    ELSE Decision("Deleted", f,
                  IF o.verbose THEN said \o <<Line("(dryrun) did nothing", p)>> ELSE said,
                  <<>>)

\* Outcomes after which the call goes on to its terminal removal
Proceeds == {"Recursing", "Passed"}

----------------------------------------------------------------------------
(* main, lines 182-229 *)

\* lines 182-215
BuildOptions(in) ==
    [recursive |-> in.recursive,
     umount |-> in.umount,
     dryrun |-> in.dryrun,
     allow_delete_above_start |-> in.allow_delete_above_start,
     enter_symlinks |-> in.enter_symlinks,
     verbose |-> in.verbose,
     allow_hidden_files |-> in.allow_hidden_files,
     remove_symlinks |-> in.remove_symlinks,
     starting_dir |-> AbsolutePath(in.path)]

Frame(fn, p, todo) == [fn |-> fn, path |-> p, todo |-> todo]
Top == stack[Len(stack)]
Rest == SubSeq(stack, 1, Len(stack) - 1)

\* The path the next call of delete() is about
Calling == status = "run" /\ stack # <<>> /\ Top.todo # <<>>
NextPath == Head(Top.todo)

----------------------------------------------------------------------------
(* Initial states: the trees and command lines explored *)

Dir(dev, r, w) == [kind |-> "dir", target |-> Root, dev |-> dev, readable |-> r, writable |-> w]
File(dev) == [kind |-> "file", target |-> Root, dev |-> dev, readable |-> TRUE, writable |-> TRUE]
Link(to) == [kind |-> "link", target |-> to, dev |-> 1, readable |-> TRUE, writable |-> TRUE]

S == <<"s">>
Outside == <<"o">>

\* Where the symlinks /s/l and /s/.k may point
LinkTargets ==
    { Outside, <<"o", "f">>, S, <<"s", "sub">>, <<"s", "m">>, <<"s", "gone">> }

\* Permission faults: no fault, /s/sub unreadable, /s read-only
Faults == {"none", "unreadable", "readonly"}

Tree(target, fault) ==
    (Root            :> Dir(1, TRUE, TRUE)) @@
    (Outside         :> Dir(1, TRUE, TRUE)) @@
    (<<"o", "f">>    :> File(1)) @@
    (<<"ls">>        :> Link(S)) @@
    (S               :> Dir(1, TRUE, fault # "readonly")) @@
    (<<"s", "a">>    :> File(1)) @@
    (<<"s", ".h">>   :> Dir(1, TRUE, TRUE)) @@
    (<<"s", ".h", "c">> :> File(1)) @@
    (<<"s", "sub">>  :> Dir(1, fault # "unreadable", TRUE)) @@
    (<<"s", "sub", "b">> :> File(1)) @@
    (<<"s", "m">>    :> Dir(2, TRUE, TRUE)) @@
    (<<"s", "m", "x">> :> File(2)) @@
    (<<"s", "l">>    :> Link(target)) @@
    (<<"s", ".k">>   :> Link(target))

Arg(abs, comps) == [absolute |-> abs, comps |-> comps]

\* The path arguments explored
PathArgs ==
    { Arg(TRUE, S), Arg(TRUE, <<"s", "l">>), Arg(TRUE, <<"ls">>), Arg(TRUE, <<"ls", "sub">>),
      Arg(TRUE, Root),
      Arg(TRUE, <<"gone">>), Arg(FALSE, <<"sub">>), Arg(FALSE, <<"a">>), Arg(FALSE, <<".h">>) }

Inputs ==
    [path : PathArgs, recursive : BOOLEAN, umount : BOOLEAN, dryrun : BOOLEAN,
     allow_delete_above_start : BOOLEAN, enter_symlinks : BOOLEAN, verbose : BOOLEAN,
     allow_hidden_files : BOOLEAN, remove_symlinks : BOOLEAN]

NoStep == [op |-> "none", path |-> Root, fs |-> <<>>]
Step(op, p, f) == [op |-> op, path |-> p, fs |-> f]

\* Every link target and every path argument is explored on the fault-free
\* tree in listing order; the permission faults and the reversed listing
\* order are explored for a walk of /s with the links pointing at /s or at /o
\* (the reversed order also with the links pointing at /s/sub).
Init ==
    /\ \E target \in LinkTargets, fault \in Faults, rev \in BOOLEAN :
          /\ fault # "none" => target \in {S, Outside}
          /\ rev => target \in {S, Outside, <<"s", "sub">>}
          /\ fs = [tree |-> Tree(target, fault), rev |-> rev]
    /\ input \in Inputs
    /\ (fs.rev \/ \E e \in DOMAIN fs.tree : ~fs.tree[e].readable \/ ~fs.tree[e].writable)
          => input.path = Arg(TRUE, S)
    /\ options = BuildOptions(input)
    /\ status = "start"
    /\ stack = <<>>
    /\ out = <<>>
    /\ trace = <<>>
    /\ last = NoStep
    /\ run = 1
    /\ prev = [fs0 |-> fs, fs |-> fs, trace |-> <<>>, out |-> <<>>, status |-> "none"]

----------------------------------------------------------------------------
(* Steps *)

\* main, lines 217-229: the starting path must exist; then the first call
Main ==
    /\ status = "start"
    /\ LET e == TryExists(fs.tree, options.starting_dir) IN
       IF e = "true"
       THEN /\ status' = "run"
            /\ stack' = <<Frame("main", Root, <<options.starting_dir>>)>>
            /\ out' = out
       ELSE /\ status' = "exit"
            /\ stack' = <<>>
            /\ out' = Append(out, Line(IF e = "false" THEN "error: path does not exist"
                                       ELSE "error: path is invalid",
                                       options.starting_dir))
    /\ last' = Step("main", options.starting_dir, fs)
    /\ UNCHANGED <<fs, input, options, trace, run, prev>>

\* Variant of DeleteEnter in which a call that returns Err makes every caller return too
DeleteEnter_Propagates ==
    /\ Calling
    /\ LET p == NextPath
           d == Checks(fs.tree, p, options, fs.rev)
           caller == [Top EXCEPT !.todo = Tail(@)]
       IN /\ fs' = [fs EXCEPT !.tree = d.fs]
          /\ out' = out \o d.lines
          /\ trace' = Append(trace, Event(p, d.outcome))
          /\ last' = Step("enter", p, fs)
          /\ IF d.outcome = "Panic"
             THEN status' = "panic" /\ stack' = <<>>
             ELSE /\ status' = status
                  /\ stack' = IF d.outcome \in Proceeds
                              THEN Append(Append(Rest, caller), Frame("delete", p, d.entries))
                              ELSE IF d.outcome \in {"RemovedSymlink", "Unmounted"}
                              THEN Append(Rest, caller)
                              ELSE <<[stack[1] EXCEPT !.todo = <<>>]>>
    /\ UNCHANGED <<input, options, run, prev>>

\* delete, lines 43-105: one call, from its entry to its return, its panic
\* or the start of its loop over the directory entries
DeleteEnter ==
    /\ Calling
    /\ LET p == NextPath
           d == Checks(fs.tree, p, options, fs.rev)
           caller == [Top EXCEPT !.todo = Tail(@)]
       IN /\ fs' = [fs EXCEPT !.tree = d.fs]
          /\ out' = out \o d.lines
          /\ trace' = Append(trace, Event(p, d.outcome))
          /\ last' = Step("enter", p, fs)
          /\ IF d.outcome = "Panic"
             THEN status' = "panic" /\ stack' = <<>>
             ELSE /\ status' = status
                  /\ stack' = IF d.outcome \in Proceeds
                              THEN Append(Append(Rest, caller), Frame("delete", p, d.entries))
                              ELSE Append(Rest, caller)
    /\ UNCHANGED <<input, options, run, prev>>

\* Variant of DeleteFinish that does not wait for the loop over the entries
DeleteFinish_BeforeChildren ==
    /\ status = "run"
    /\ stack # <<>>
    /\ Top.fn = "delete"
    /\ LET p == Top.path
           d == Removal(fs.tree, p, options)
       IN /\ fs' = [fs EXCEPT !.tree = d.fs]
          /\ out' = out \o d.lines
          /\ trace' = Append(trace, Event(p, d.outcome))
          /\ last' = Step("finish", p, fs)
          /\ stack' = Rest
    /\ UNCHANGED <<input, options, status, run, prev>>

\* delete, lines 106-116: after the loop, the removal of the path itself
DeleteFinish ==
    /\ status = "run"
    /\ stack # <<>>
    /\ Top.fn = "delete"
    /\ Top.todo = <<>>
    /\ LET p == Top.path
           d == Removal(fs.tree, p, options)
       IN /\ fs' = [fs EXCEPT !.tree = d.fs]
          /\ out' = out \o d.lines
          /\ trace' = Append(trace, Event(p, d.outcome))
          /\ last' = Step("finish", p, fs)
          /\ stack' = Rest
    /\ UNCHANGED <<input, options, status, run, prev>>

\* main, line 230: the first call returned and the process ends
Exit ==
    /\ status = "run"
    /\ stack # <<>>
    /\ Top.fn = "main"
    /\ Top.todo = <<>>
    /\ status' = "done"
    /\ stack' = <<>>
    /\ last' = Step("exit", Root, fs)
    /\ UNCHANGED <<fs, input, options, out, trace, run, prev>>

Ended == status \in {"done", "exit", "panic"}

\* The user runs the program again on what a dry run left behind, as
\* another dry run or for real, with the same arguments otherwise
Rerun ==
    /\ Ended
    /\ run = 1
    /\ input.dryrun
    /\ \E dry \in BOOLEAN :
          /\ input' = [input EXCEPT !.dryrun = dry]
          /\ options' = BuildOptions(input')
    /\ prev' = [fs0 |-> prev.fs0, fs |-> fs, trace |-> trace, out |-> out, status |-> status]
    /\ run' = 2
    /\ status' = "start"
    /\ stack' = <<>>
    /\ out' = <<>>
    /\ trace' = <<>>
    /\ last' = NoStep
    /\ UNCHANGED fs

Next == Main \/ DeleteEnter \/ DeleteFinish \/ Exit \/ Rerun

Spec == Init /\ [][Next]_vars

----------------------------------------------------------------------------
(* Vocabulary of the properties *)

\* The latest step entered a call of delete() on last.path, in the filesystem last.fs
Entering == last.op = "enter"
\* The latest step was the terminal removal of last.path
Finishing == last.op = "finish"
Before == last.fs.tree
LastOutcome == trace[Len(trace)].outcome

\* The path names a symbolic link / a real directory
LinkAt(f, p) == LET r == Lstat(f, p) IN r.ok /\ f[r.at].kind = "link"
DirAt(f, p) == LET r == Lstat(f, p) IN r.ok /\ f[r.at].kind = "dir"

\* The path resolves, and to a place that starting_dir does not prefix
OutsideStart(f, p) ==
    LET r == Canonicalize(f, p) IN r.ok /\ ~StartsWith(r.at, options.starting_dir)

\* Entries present in f and not in g
Gone(f, g) == (DOMAIN f) \ (DOMAIN g)

\* The call on last.path returned without listing the path and without
\* going on to its removal
Returned ==
    /\ LastOutcome \notin Proceeds
    /\ ~(stack # <<>> /\ Top.fn = "delete" /\ Top.path = last.path)

----------------------------------------------------------------------------
(* C1 *)

\* C1 as stated: every call on a path that resolves outside starting_dir,
\* allow_delete_above_start being false, ends as the above-starting-dir skip
\* and removes nothing, symlink or not.
C1_Stated ==
    (Entering /\ ~options.allow_delete_above_start /\ OutsideStart(Before, last.path))
        => (LastOutcome = "SkippedAboveRoot" /\ fs = last.fs)

\* C1 as amended: the above-starting-dir skip is the outcome when the path
\* is not a symlink, or is a symlink with enter_symlinks set and
\* remove_symlinks unset; a symlink is otherwise settled by the symlink
\* rules first, and then nothing but the link itself is ever removed.
C1_AboveStartSkipped ==
    (Entering /\ ~options.allow_delete_above_start /\ OutsideStart(Before, last.path))
        => /\ (LinkAt(Before, last.path) => options.enter_symlinks /\ ~options.remove_symlinks)
                => (LastOutcome = "SkippedAboveRoot" /\ fs = last.fs /\ Returned)
           /\ Gone(Before, fs.tree) \subseteq {Lstat(Before, last.path).at}
           /\ Gone(fs.tree, Before) = {}
           /\ Returned

\* A symlink that leads out of starting_dir was entered and skipped as above the start
C1_Witness ==
    /\ Entering
    /\ ~options.allow_delete_above_start
    /\ OutsideStart(Before, last.path)
    /\ LinkAt(Before, last.path)
    /\ LastOutcome = "SkippedAboveRoot"

----------------------------------------------------------------------------
(* C2 *)

\* C2 as stated: a call on a symlink with remove_symlinks set leaves the
\* link gone and its target and everything beneath it in place, whatever
\* the other options.
C2_Stated ==
    (Entering /\ options.remove_symlinks /\ LinkAt(Before, last.path))
        => /\ ~Lstat(fs.tree, last.path).ok
           /\ Gone(Before, fs.tree) = {Lstat(Before, last.path).at}
           /\ Returned

\* C2 as amended: such a call never lists or removes the target or anything
\* beneath it; the link itself is gone after the call when dry_run is unset
\* and the unlink succeeds, and is left in place in a dry run.
C2_SymlinkRemovedNotTarget ==
    (Entering /\ options.remove_symlinks /\ LinkAt(Before, last.path))
        => /\ Returned
           /\ LastOutcome \in {"RemovedSymlink", "Panic"}
           /\ Gone(Before, fs.tree) \subseteq {Lstat(Before, last.path).at}
           /\ Gone(fs.tree, Before) = {}
           /\ (~options.dryrun /\ LastOutcome = "RemovedSymlink")
                 => ~Lstat(fs.tree, last.path).ok
           /\ options.dryrun => fs = last.fs

\* A link to an existing target was removed by a real run
C2_Witness ==
    /\ Entering
    /\ options.remove_symlinks
    /\ ~options.dryrun
    /\ LinkAt(Before, last.path)
    /\ Canonicalize(Before, last.path).ok
    /\ LastOutcome = "RemovedSymlink"
    /\ ~Lstat(fs.tree, last.path).ok

----------------------------------------------------------------------------
(* C3 *)

\* No entry lies beneath directory d
Empty(f, d) == \A e \in DOMAIN f : ~(StartsWith(e, d) /\ e # d)

\* C3 as stated: in a real recursive run, the terminal step of a directory
\* whose descendants have all been removed removes the directory.
C3_Stated ==
    (/\ Finishing
     /\ options.recursive
     /\ ~options.dryrun
     /\ DirAt(Before, last.path)
     /\ Empty(Before, Lstat(Before, last.path).at))
        => ~Lstat(fs.tree, last.path).ok

----------------------------------------------------------------------------
(* C4 *)

\* C4: a dry run leaves the filesystem as it found it, and a second dry run
\* on what the first left prints and decides exactly what the first did.
C4_DryRunChangesNothing ==
    /\ input.dryrun => fs = prev.fs0
    /\ (run = 2 /\ input.dryrun)
          => /\ Len(trace) <= Len(prev.trace)
             /\ trace = SubSeq(prev.trace, 1, Len(trace))
             /\ Ended => (trace = prev.trace /\ out = prev.out /\ status = prev.status)

\* A second dry run finished after a walk that reported deletions
C4_Witness ==
    /\ run = 2
    /\ input.dryrun
    /\ status = "done"
    /\ \E i \in 1..Len(trace) : trace[i].outcome = "Deleted"
    /\ \E i \in 1..Len(trace) : trace[i].outcome = "RemovedSymlink"

----------------------------------------------------------------------------
(* C5 *)

\* C5: a call on a symlink with enter_symlinks and remove_symlinks both
\* unset ends as the symlink skip: one line is printed, nothing is removed,
\* the link is not listed and no later check decides.
C5_SymlinkSkipped ==
    (Entering /\ ~options.enter_symlinks /\ ~options.remove_symlinks
              /\ LinkAt(Before, last.path))
        => /\ LastOutcome = "SkippedSymlink"
           /\ fs = last.fs
           /\ Returned
           /\ out[Len(out)] = Line("is a symlink, skipping", last.path)

\* A link leading out of the tree, itself hidden, was skipped as a symlink
C5_Witness ==
    /\ Entering
    /\ ~options.enter_symlinks
    /\ ~options.remove_symlinks
    /\ LinkAt(Before, last.path)
    /\ OutsideStart(Before, last.path)
    /\ LastOutcome = "SkippedSymlink"

----------------------------------------------------------------------------
(* C6 *)

\* The checks that precede the mount-point check let the path through
PassesSymlink(f, p) == LinkAt(f, p) => (options.enter_symlinks /\ ~options.remove_symlinks)
PassesAboveStart(f, p) ==
    options.allow_delete_above_start
        \/ (Canonicalize(f, p).ok /\ StartsWith(Canonicalize(f, p).at, options.starting_dir))
PassesHidden(p) == options.allow_hidden_files \/ FileName(p) \notin DotNames
ReachesMountCheck(f, p) == PassesSymlink(f, p) /\ PassesAboveStart(f, p) /\ PassesHidden(p)

\* C6: a path that reaches the mount-point check and is reported a mount
\* point is neither listed nor removed: the outcome is the unmount action
\* with umount set and the mount-point skip without, and the filesystem is
\* as before.
C6_MountPointKept ==
    (Entering /\ ReachesMountCheck(Before, last.path) /\ is_mountpoint(Before, last.path))
        => /\ LastOutcome = (IF options.umount THEN "Unmounted" ELSE "SkippedMountPoint")
           /\ fs = last.fs
           /\ Returned

\* A mounted directory inside the tree was met by a real recursive run with umount set
C6_Witness ==
    /\ Entering
    /\ options.umount
    /\ options.recursive
    /\ ~options.dryrun
    /\ last.path = <<"s", "m">>
    /\ is_mountpoint(Before, last.path)
    /\ LastOutcome = "Unmounted"

----------------------------------------------------------------------------
(* C7 *)

Skips ==
    {"SkippedSymlink", "SkippedAboveRoot", "SkippedHidden", "SkippedMountPoint",
     "SkippedNotRecursiveDirectory"}

HiddenName(p) == FileName(p) \in DotNames

\* C7 as stated: with allow_hidden_files unset a call on a dot-named path
\* ends as a skip, removes nothing and does not enter it, whatever the other
\* options; with allow_hidden_files set the hidden check skips nothing.
C7_Stated ==
    /\ (Entering /\ HiddenName(last.path) /\ ~options.allow_hidden_files)
          => (LastOutcome \in Skips /\ fs = last.fs /\ Returned)
    /\ (Entering /\ options.allow_hidden_files) => LastOutcome # "SkippedHidden"

\* C7 as amended: with allow_hidden_files unset a call on a dot-named path
\* never enters it, and removes it only when it is a symlink and
\* remove_symlinks is set (the symlink rule comes first); otherwise the call
\* ends as a skip, which is the hidden skip whenever the symlink and
\* starting-dir checks let the path through, or aborts the run where
\* canonicalization fails.  With allow_hidden_files set the hidden check
\* skips nothing.
C7_HiddenSkipped ==
    /\ (Entering /\ HiddenName(last.path) /\ ~options.allow_hidden_files)
          => /\ Returned
             /\ Gone(fs.tree, Before) = {}
             /\ IF LinkAt(Before, last.path) /\ options.remove_symlinks
                THEN /\ LastOutcome \in {"RemovedSymlink", "Panic"}
                     /\ Gone(Before, fs.tree) \subseteq {Lstat(Before, last.path).at}
                ELSE /\ fs = last.fs
                     /\ LastOutcome \in Skips \cup {"Panic"}
                     /\ LastOutcome = "Panic" => ~Canonicalize(Before, last.path).ok
             /\ (PassesSymlink(Before, last.path) /\ PassesAboveStart(Before, last.path))
                   => LastOutcome = "SkippedHidden"
    /\ (Entering /\ options.allow_hidden_files) => LastOutcome # "SkippedHidden"

\* A hidden directory holding a file was skipped as hidden by a real recursive run
C7_Witness ==
    /\ Entering
    /\ ~options.allow_hidden_files
    /\ options.recursive
    /\ ~options.dryrun
    /\ last.path = <<"s", ".h">>
    /\ DirAt(Before, last.path)
    /\ LastOutcome = "SkippedHidden"

----------------------------------------------------------------------------
(* C8 *)

\* C8 as stated: with recursive unset a call on a directory ends as the
\* directory skip, without listing it or removing anything, whatever the
\* other options.
C8_Stated ==
    (Entering /\ ~options.recursive /\ DirAt(Before, last.path))
        => (LastOutcome = "SkippedNotRecursiveDirectory" /\ fs = last.fs /\ Returned)

\* C8 as amended: with recursive unset no directory is ever listed, delete
\* is invoked on the starting path alone, and a call on a directory removes
\* nothing; its outcome is the directory skip when the earlier checks let
\* the directory through, and otherwise the outcome of the earlier check
\* (above-start skip, hidden skip, unmount or mount-point skip).
C8_DirectoryNotEntered ==
    /\ (Entering /\ ~options.recursive /\ DirAt(Before, last.path))
          => /\ fs = last.fs
             /\ Returned
             /\ LastOutcome \in {"SkippedAboveRoot", "SkippedHidden", "Unmounted",
                                 "SkippedMountPoint", "SkippedNotRecursiveDirectory"}
             /\ (ReachesMountCheck(Before, last.path) /\ ~is_mountpoint(Before, last.path))
                   => LastOutcome = "SkippedNotRecursiveDirectory"
    /\ ~options.recursive
          => \A i \in 1..Len(trace) :
                trace[i].outcome # "Recursing" /\ trace[i].path = options.starting_dir

\* A directory with entries beneath it was skipped as a directory
C8_Witness ==
    /\ Entering
    /\ ~options.recursive
    /\ ~options.dryrun
    /\ DirAt(Before, last.path)
    /\ ~Empty(Before, Lstat(Before, last.path).at)
    /\ LastOutcome = "SkippedNotRecursiveDirectory"

----------------------------------------------------------------------------
(* C9 *)

\* C9 as stated: once the first call of delete() has started, no failing
\* filesystem operation ends the run; every failure is a skip or an error
\* outcome of its path and the walk goes on.
C9_Stated == status # "panic"

----------------------------------------------------------------------------
(* C10 *)

\* The entries a run's decisions report as deleted, as entries of filesystem f
Reported(f, t) ==
    { Lstat(f, t[i].path).at :
        i \in { j \in 1..Len(t) : t[j].outcome \in {"Deleted", "RemovedSymlink"} } }

\* C10 as stated: a real run started from the state a dry run started from
\* visits the same paths in the same order with the same outcomes, and
\* removes exactly the entries the dry run reported as deleted.
C10_Stated ==
    (run = 2 /\ ~input.dryrun /\ Ended)
        => /\ trace = prev.trace
           /\ Gone(prev.fs.tree, fs.tree) = Reported(prev.fs.tree, prev.trace)

----------------------------------------------------------------------------
(* C11 *)

\* The filesystem the current invocation started from
StartFs == IF run = 1 THEN prev.fs0 ELSE prev.fs

MountOutcomes == {"Unmounted", "SkippedMountPoint"}

\* What C11 says is_mountpoint answers for path p in filesystem f
MountPointExpected(f, p) ==
    IF Len(p) = 0 THEN TRUE
    ELSE IF ~Lstat(f, p).ok \/ ~Lstat(f, SubSeq(p, 1, Len(p) - 1)).ok THEN FALSE
    ELSE f[Lstat(f, p).at].dev # f[Lstat(f, SubSeq(p, 1, Len(p) - 1)).at].dev

\* C11: a call that reaches the mount-point check is treated as a mount
\* point exactly when the path has no parent, or the link-aware stat of the
\* path and of its parent both succeed and give different device
\* identifiers; a failed stat gives "not a mount point"; the check changes
\* nothing in the filesystem.
C11_MountPointDetection ==
    (Entering /\ ReachesMountCheck(Before, last.path))
        => /\ (LastOutcome \in MountOutcomes) <=> MountPointExpected(Before, last.path)
           /\ LastOutcome \in MountOutcomes => fs = last.fs

\* A path that no longer exists reached the mount-point check, its stat
\* failed, and it was not taken for a mount point
C11_Witness ==
    /\ Entering
    /\ ReachesMountCheck(Before, last.path)
    /\ ~Lstat(Before, last.path).ok
    /\ LastOutcome = "Passed"

----------------------------------------------------------------------------
(* C12 *)

\* C12 as stated: while delete() runs, starting_dir is the canonical form of
\* the path the user gave, as it was when the run began.
C12_Stated ==
    status = "run"
        => /\ Canonicalize(StartFs.tree, AbsolutePath(input.path)).ok
           /\ options.starting_dir = Canonicalize(StartFs.tree, AbsolutePath(input.path)).at

----------------------------------------------------------------------------
(* C13 *)

TerminalOutcomes == {"Deleted", "DeletionError"}

\* The call on path p has returned (or ended the run): its skip, its
\* terminal removal or its panic is in the history
CallEnded(p) ==
    \E i \in 1..Len(trace) : trace[i].path = p /\ trace[i].outcome \notin Proceeds

\* C13: the walk is depth-first and parent-after-children.  (a) The
\* terminal removal of a directory comes only when the call on every entry
\* it holds has ended, and nothing at or beneath a path is handled after
\* that path's terminal removal.  (b) The decisions about one path and
\* everything beneath it are consecutive: once the walk has left a subtree
\* for a sibling it does not come back (stated for the latest decision of
\* the history, which only grows: a subtree that an earlier decision and the
\* latest one share also holds the decision just before the latest).  (c)
\* The frames of the call stack are nested parent to child, each waiting
\* only for entries of its own path.
C13_DepthFirst ==
    LET n == Len(trace) IN
    /\ (Finishing /\ IsDir(Before, last.path))
          => \A e \in DOMAIN Before :
                (e # Root /\ Parent(e) = Canonicalize(Before, last.path).at)
                    => CallEnded(Append(last.path, FileName(e)))
    /\ \A i \in 1..(n - 1) :
          trace[i].outcome \in TerminalOutcomes
              => ~StartsWith(trace[n].path, trace[i].path)
    /\ \A i \in 1..(n - 2) : \A k \in 0..Len(trace[n].path) :
          StartsWith(trace[i].path, SubSeq(trace[n].path, 1, k))
              => StartsWith(trace[n - 1].path, SubSeq(trace[n].path, 1, k))
    /\ \A k \in 2..Len(stack) :
          /\ stack[k].fn = "delete"
          /\ k > 2 => Parent(stack[k].path) = stack[k - 1].path
          /\ \A j \in 1..Len(stack[k].todo) : Parent(stack[k].todo[j]) = stack[k].path

\* The terminal step of the starting directory, after a nested directory
\* and its file were handled and a later sibling was skipped
C13_Witness ==
    /\ Finishing
    /\ last.path = S
    /\ \E i \in 1..Len(trace) : trace[i].path = <<"s", "sub", "b">> /\ trace[i].outcome = "Deleted"
    /\ \E i \in 1..Len(trace) : trace[i].path = <<"s", "sub">> /\ trace[i].outcome \in TerminalOutcomes
    /\ \E i \in 1..Len(trace) : trace[i].path = <<"s", "m">> /\ trace[i].outcome = "SkippedMountPoint"

----------------------------------------------------------------------------
(* C14 *)

\* C14: a policy skip of a path, or a failed terminal removal, leaves the
\* run going with its callers still on the stack; and in a run that ended
\* normally every directory that was listed had delete invoked on every
\* entry it still holds and had its own terminal removal attempted after
\* them.
C14_SkipDoesNotStopWalk ==
    /\ ((Entering /\ LastOutcome \in Skips) \/ (Finishing /\ LastOutcome = "DeletionError"))
          => (status = "run" /\ stack # <<>> /\ stack[1].fn = "main")
    /\ status = "done"
          => \A i \in 1..Len(trace) :
                trace[i].outcome = "Recursing"
                    => /\ \E j \in (i + 1)..Len(trace) :
                             /\ trace[j].path = trace[i].path
                             /\ trace[j].outcome \in TerminalOutcomes
                       /\ \A e \in DOMAIN fs.tree :
                             (/\ e # Root
                              /\ Canonicalize(StartFs.tree, trace[i].path).ok
                              /\ Parent(e) = Canonicalize(StartFs.tree, trace[i].path).at)
                                 => CallEnded(Append(trace[i].path, FileName(e)))

\* A real run ended normally after a hidden entry was skipped, a later
\* sibling directory failed to be removed, later siblings were still
\* handled and the parent's own removal was attempted
C14_Witness ==
    /\ status = "done"
    /\ ~options.dryrun
    /\ \E i, j, k, l \in 1..Len(trace) :
          /\ i < j /\ j < k /\ k < l
          /\ trace[i] = Event(<<"s", ".h">>, "SkippedHidden")
          /\ trace[j] = Event(<<"s", "sub">>, "DeletionError")
          /\ trace[k] = Event(<<"s", "m">>, "SkippedMountPoint")
          /\ trace[l].path = S /\ trace[l].outcome \in TerminalOutcomes

----------------------------------------------------------------------------
(* C15 *)

\* Number of components of path p at which p goes through a symlink of f
LinkCount(f, p) == Cardinality({ k \in 1..Len(p) : LinkAt(f, SubSeq(p, 1, k)) })

\* Depth of the deepest entry of f
Deepest(f) == CHOOSE d \in { Len(e) : e \in DOMAIN f } : \A e \in DOMAIN f : Len(e) <= d

\* C15: the walk makes finitely many calls and ends.  delete() is never
\* invoked twice on the same path; every path it is invoked on goes through
\* at most MaxSymlinks + 1 symlinks (the kernel resolves no longer chain, so
\* a link to an ancestor cannot be descended for ever) and is no longer than
\* that many stretches of the tree's depth; and a run that has not ended can
\* always take its next step (the guard of Main, of DeleteEnter, or of
\* DeleteFinish or Exit holds).
C15_WalkIsFinite ==
    /\ Entering
          => /\ \A i \in 1..(Len(trace) - 1) : trace[i].path # last.path
             /\ LinkCount(StartFs.tree, last.path) <= MaxSymlinks + 1
             /\ Len(last.path)
                   <= (LinkCount(StartFs.tree, last.path) + 1) * Deepest(StartFs.tree)
    /\ ~Ended
          => \/ status = "start"
             \/ Calling
             \/ (status = "run" /\ stack # <<>> /\ Top.todo = <<>>
                                /\ Top.fn \in {"delete", "main"})

\* A run with enter_symlinks set and remove_symlinks unset ended after it
\* descended a link to its own ancestor as deep as the kernel resolves
C15_Witness ==
    /\ Ended
    /\ options.enter_symlinks
    /\ ~options.remove_symlinks
    /\ StartFs.tree[<<"s", "l">>].target = S
    /\ \E i \in 1..Len(trace) :
          /\ LinkCount(StartFs.tree, trace[i].path) = MaxSymlinks + 1
          /\ \A k \in 1..Len(trace[i].path) :
                trace[i].path[k] \in {"s", "l"}

----------------------------------------------------------------------------
(* C16 *)

\* Device of the entry the starting path names
StartDev == StartFs.tree[Lstat(StartFs.tree, options.starting_dir).at].dev

\* C16: every entry removed during a run has the device identifier of the
\* starting path: nothing that lies on a filesystem mounted inside the tree
\* is removed, also when that filesystem is reached through an entered
\* symlink.
C16_SameDevice ==
    \A e \in Gone(StartFs.tree, fs.tree) : StartFs.tree[e].dev = StartDev

\* A real run entered a symlink into the mounted directory, skipped the
\* mounted file reached through it, and removed the link itself
C16_Witness ==
    /\ Finishing
    /\ options.enter_symlinks
    /\ last.path = <<"s", "l">>
    /\ StartFs.tree[<<"s", "l">>].target = <<"s", "m">>
    /\ LastOutcome = "Deleted"
    /\ <<"s", "l">> \in Gone(StartFs.tree, fs.tree)
    /\ \E i \in 1..Len(trace) :
          /\ trace[i].path = <<"s", "l", "x">>
          /\ trace[i].outcome \in MountOutcomes

----------------------------------------------------------------------------
(* C17 *)

\* C17: with allow_delete_above_start unset, every entry removed during a
\* run is the starting path itself or lies in a directory whose canonical
\* path is starting_dir or beneath it; this covers links removed under
\* remove_symlinks and entries reached through entered symlinks.
C17_RemovedInsideStart ==
    ~options.allow_delete_above_start
        => \A e \in Gone(StartFs.tree, fs.tree) :
              \/ StartsWith(Parent(e), options.starting_dir)
              \/ e = Lstat(StartFs.tree, options.starting_dir).at

\* With allow_delete_above_start unset, a real run removed an entry that it
\* reached through an entered symlink
C17_Witness ==
    /\ Finishing
    /\ ~options.allow_delete_above_start
    /\ options.enter_symlinks
    /\ LastOutcome = "Deleted"
    /\ Gone(Before, fs.tree) # {}
    /\ \E k \in 1..(Len(last.path) - 1) : LinkAt(StartFs.tree, SubSeq(last.path, 1, k))

====
